---- MODULE Spec2Model ----
(***************************************************************************)
(* Pillar Quest (src/main.py): the frame loop of run_game, the Player,     *)
(* the Checkpoint and the level loader, as a state machine.                *)
(*                                                                         *)
(* Velocities are kept in hundredths of a pixel per frame (GRAVITY 0.8 is  *)
(* 80), so that the float arithmetic of the source is exact here.          *)
(* Rectangle overlaps that the source computes from pixel positions are    *)
(* inputs of a frame (the record `in`): which platforms, enemies,          *)
(* projectiles, collectibles and flags the player's rectangle meets this   *)
(* frame.  Particles are cosmetic and are left out.                        *)
(***************************************************************************)
EXTENDS Integers, Sequences, FiniteSets, TLC

VARIABLES level_num, paused, game_over, win, level_clear_cool,
          level_transition_timer, respawn_point, player_spawn, level_data,
          enemies, collectibles, checkpoints, bullets, enemy_bullets,
          player, jumped, air, pass, touching, clear_run, frame_log, probe

vars == <<level_num, paused, game_over, win, level_clear_cool,
          level_transition_timer, respawn_point, player_spawn, level_data,
          enemies, collectibles, checkpoints, bullets, enemy_bullets,
          player, jumped, air, pass, touching, clear_run, frame_log, probe>>

\* the variables of run_game and of the player
gamevars == <<level_num, paused, game_over, win, level_clear_cool,
              level_transition_timer, respawn_point, player_spawn, level_data,
              enemies, collectibles, checkpoints, bullets, enemy_bullets,
              player, jumped, air, pass, touching, clear_run, frame_log>>

(* ------------------------------ CONFIG -------------------------------- *)
FPS == 60
TILE == 48
GRAVITY == 80
PLAYER_SPEED == 6
PLAYER_JUMP_POWER == -1500
DOUBLE_JUMP_MULT == 95
COYOTE_TIME == 8
JUMP_BUFFER == 8
MAX_LEVEL == 6
DASH_SPEED == 18
DASH_COOLDOWN == 45
MAX_BULLETS == 6
KNOCKBACK == 60
KILL_SCORE == 100
COLLECT_SCORE == 50
STAGE_BONUS == 500
START_LIVES == 3

DIFFICULTY ==
  [t \in 1..5 |->
     CASE t = 1 -> [enemy_count |-> 4, enemy_speed |-> 100]
       [] t = 2 -> [enemy_count |-> 6, enemy_speed |-> 120]
       [] t = 3 -> [enemy_count |-> 8, enemy_speed |-> 150]
       [] t = 4 -> [enemy_count |-> 10, enemy_speed |-> 190]
       [] OTHER -> [enemy_count |-> 12, enemy_speed |-> 230]]

(* ------------------------------ bounds -------------------------------- *)
\* events delivered to one frame
MaxEvents == 1
\* enemy projectiles alive at once
MaxEnemyBullets == 1
\* player projectiles alive at once while a level is being cleared
MaxPlayerBullets == 1
\* frames of uninterrupted falling before the player lands or leaves the level
MaxFall == 2
\* the leftmost pixels the player's rectangle starts from, next to two tiles
MaxX == 210
\* the pixels of the stretch an enemy walks on
MaxEnemyX == 6

(* ------------------------------ helpers ------------------------------- *)
Max(a, b) == IF a >= b THEN a ELSE b
Min(a, b) == IF a <= b THEN a ELSE b

\* Python's round() of a value given in hundredths (no value of the model
\* lies exactly between two integers)
Round(v) == (v + 50) \div 100

(* ------------------------------ LEVELS -------------------------------- *)
Run(r, c1, c2) == {<<r, c>> : c \in c1..c2}

\* LEVEL_TEMPLATES: the cells of each grid, by symbol
LEVEL_TEMPLATES ==
  << [rows |-> 10, cols |-> 50, P |-> {<<6, 6>>}, E |-> {}, C |-> {<<3, 20>>},
      plat |-> Run(4, 10, 14) \cup Run(4, 25, 29) \cup Run(7, 0, 9)
               \cup Run(7, 16, 20) \cup Run(7, 34, 39)],
     [rows |-> 10, cols |-> 50, P |-> {<<4, 6>>},
      E |-> {<<4, 12>>, <<4, 29>>, <<7, 45>>}, C |-> {<<1, 20>>},
      plat |-> Run(2, 15, 19) \cup Run(2, 33, 37) \cup Run(4, 19, 23)
               \cup Run(5, 4, 13) \cup Run(5, 34, 44) \cup Run(7, 18, 22)],
     [rows |-> 10, cols |-> 50, P |-> {<<4, 8>>},
      E |-> {<<2, 48>>, <<6, 29>>}, C |-> {<<1, 36>>},
      plat |-> Run(2, 10, 14) \cup Run(2, 29, 32) \cup Run(4, 20, 24)
               \cup Run(5, 4, 13) \cup Run(5, 34, 39) \cup Run(7, 20, 24)] >>

\* Checkpoint.__init__ on a platform tile: the flag (20 x 28) stands on the
\* tile's top; respawn_point is (rect.centerx, rect.top)
Checkpoint(cell) ==
  [activated |-> FALSE,
   respawn_point |-> <<cell[2] * TILE + TILE \div 2, cell[1] * TILE - 28>>]

\* the rightmost platform: max by (rect.left, -rect.top)
Rightmost(plat) ==
  CHOOSE p \in plat : \A q \in plat :
      \/ q[2] < p[2]
      \/ (q[2] = p[2] /\ q[1] >= p[1])

build_level_from_template(t) ==
  [platforms |-> Cardinality(t.plat),
   enemies |-> Cardinality(t.E),
   collectibles |-> Cardinality(t.C),
   spawn |-> IF t.P = {} THEN <<TILE * 2, TILE * 6>>
             ELSE LET c == CHOOSE c \in t.P : TRUE
                  IN <<c[2] * TILE + TILE \div 2, c[1] * TILE + TILE>>,
   checkpoints |-> IF t.plat = {} THEN <<>>
                   ELSE <<Checkpoint(Rightmost(t.plat))>>,
   width |-> t.cols * TILE,
   height |-> t.rows * TILE]

\* (mutant) the difficulty tier wraps around like the template does
load_level_wraptier(n) ==
  LET b == build_level_from_template(LEVEL_TEMPLATES[((n - 1) % Len(LEVEL_TEMPLATES)) + 1])
      top == CHOOSE k \in DOMAIN DIFFICULTY : \A j \in DOMAIN DIFFICULTY : j <= k
      settings == DIFFICULTY[((n - 1) % top) + 1]
  IN [b EXCEPT !.enemies = Max(b.enemies, settings.enemy_count)]
        @@ [n |-> n, settings |-> settings,
            shooters |-> b.enemies > 0]

\* LevelManager.load_level: the enemy group is filled up to the tier's count
\* (the groups are kept by their sizes)
load_level(n) ==
  LET b == build_level_from_template(LEVEL_TEMPLATES[((n - 1) % Len(LEVEL_TEMPLATES)) + 1])
      top == CHOOSE k \in DOMAIN DIFFICULTY : \A j \in DOMAIN DIFFICULTY : j <= k
      settings == DIFFICULTY[Min(n, top)]
  IN [b EXCEPT !.enemies = Max(b.enemies, settings.enemy_count)]
        @@ [n |-> n, settings |-> settings,
            shooters |-> b.enemies > 0]

\* the levels of the game, loaded once
LEVELS == [n \in 1..MAX_LEVEL |-> load_level(n)]

(* ------------------------------ PLAYER -------------------------------- *)
\* A position is the point the rectangle's midbottom was last put at, and
\* whether physics or a knockback has displaced it since.
At(point) == [at |-> point, moved |-> FALSE]

\* Player.__init__
Player(point) ==
  [rect |-> At(point), vel_x |-> 0, vel_y |-> 0, on_ground |-> FALSE,
   double_jump |-> TRUE, dash_cooldown |-> 0, facing |-> 1,
   lives |-> START_LIVES, score |-> 0, coyote_timer |-> 0, jump_buffer |-> 0]

\* Player.handle_events: a KEYDOWN of a jump key arms the jump buffer
handle_events(p, ev) ==
  IF \E i \in 1..Len(ev) : ev[i] = "JUMP"
  THEN [p EXCEPT !.jump_buffer = JUMP_BUFFER]
  ELSE p

\* the condition of the full-power branch of the jump block
CanJump(prev_on_ground, coyote_timer) == prev_on_ground \/ coyote_timer > 0

\* (mutant) the double jump fires whether or not the charge is left
CanDoubleJump_nocharge(full, double_jump) == ~full

\* the condition of the elif branch: the double jump
CanDoubleJump(full, double_jump) == ~full /\ double_jump

\* (mutant) the window is armed one frame too long
CoyoteNext_long(on_ground, coyote_timer) ==
  IF on_ground THEN COYOTE_TIME + 1
  ELSE IF coyote_timer > 0 THEN coyote_timer - 1 ELSE coyote_timer

\* the coyote timer at the end of Player.update
CoyoteNext(on_ground, coyote_timer) ==
  IF on_ground THEN COYOTE_TIME
  ELSE IF coyote_timer > 0 THEN coyote_timer - 1 ELSE coyote_timer

\* (mutant) the cap lets a seventh projectile through
CanShoot_inclusive(fire, nbullets) == fire /\ nbullets <= MAX_BULLETS

\* shooting: the mouse button is held and fewer than 6 projectiles are live
CanShoot(fire, nbullets) == fire /\ nbullets < MAX_BULLETS

\* Player.respawn
respawn(p, point) == [p EXCEPT !.rect = At(point), !.vel_x = 0, !.vel_y = 0]

\* the level's spawn tiles rest on a platform: a player put there and not
\* moving sideways lands where it stood
OnPlatform(point, ld) == point = ld.spawn

\* (mutant) the dash is let through one frame before the cooldown ends
DashReady_early(dash, dash_cooldown) == dash /\ dash_cooldown <= 1

\* keys[K_LSHIFT] and self.dash_cooldown <= 0
DashReady(dash, dash_cooldown) == dash /\ dash_cooldown <= 0

\* Player.update: returns the player, the outcome, the projectiles spawned
\* and the impulse that fired
update(p, in, ld, nbullets) ==
  LET prev_on_ground == p.on_ground
      vx0 == IF in.right THEN PLAYER_SPEED
             ELSE IF in.left THEN -PLAYER_SPEED ELSE 0
      facing == IF in.right THEN 1 ELSE IF in.left THEN -1 ELSE p.facing
      dash == DashReady(in.dash, p.dash_cooldown)
      vx1 == IF dash THEN DASH_SPEED * facing ELSE vx0
      cd1 == IF dash THEN DASH_COOLDOWN ELSE p.dash_cooldown
      cd2 == IF cd1 > 0 THEN cd1 - 1 ELSE cd1
      full == p.jump_buffer > 0 /\ CanJump(prev_on_ground, p.coyote_timer)
      dbl == p.jump_buffer > 0 /\ CanDoubleJump(full, p.double_jump)
      vy1 == IF full THEN PLAYER_JUMP_POWER
             ELSE IF dbl THEN (PLAYER_JUMP_POWER * DOUBLE_JUMP_MULT) \div 100
             ELSE p.vel_y
      dj1 == IF full THEN TRUE ELSE IF dbl THEN FALSE ELSE p.double_jump
      jb1 == IF full \/ dbl THEN 0 ELSE p.jump_buffer
      jb2 == IF jb1 > 0 THEN jb1 - 1 ELSE jb1
      vy2 == vy1 + GRAVITY
      \* collide(platforms, 'x')
      vx2 == IF in.hitx THEN 0 ELSE vx1
      \* collide(platforms, 'y')
      landed == in.hity /\ vy2 > 0
      bumped == in.hity /\ vy2 < 0
      vy3 == IF landed \/ bumped THEN 0 ELSE vy2
      still == /\ ~p.rect.moved /\ vx1 = 0 /\ p.vel_y = 0 /\ landed
               /\ OnPlatform(p.rect.at, ld)
      spawn == IF CanShoot(in.fire, nbullets) THEN 1 ELSE 0
  IN [p |-> [p EXCEPT !.rect = [@ EXCEPT !.moved = ~still],
                      !.vel_x = vx2, !.vel_y = vy3, !.on_ground = landed,
                      !.double_jump = IF landed THEN TRUE ELSE dj1,
                      !.dash_cooldown = cd2, !.facing = facing,
                      !.coyote_timer = CoyoteNext(landed, p.coyote_timer),
                      !.jump_buffer = jb2,
                      !.lives = IF in.fell THEN @ - 1 ELSE @],
      outcome |-> IF in.fell THEN "died" ELSE "none",
      spawn |-> spawn,
      jumped |-> IF full THEN "full" ELSE IF dbl THEN "double" ELSE "none",
      dy |-> Round(vy2), dx |-> vx1, dashed |-> dash]

\* what the rectangles allow in one Player.update: a player below the level
\* has fallen there and touches no platform; a player standing on its spawn
\* tile meets that tile; a fall lasts at most MaxFall frames
UpdateFeasible(p, in, ld, u) ==
  /\ in.fell => (~in.hity /\ u.dy > 0 /\ p.rect.moved)
  /\ (~p.rect.moved /\ OnPlatform(p.rect.at, ld) /\ u.dx = 0 /\ u.dy > 0)
        => in.hity
  /\ in.hitx => u.dx # 0
  /\ (~in.fell) => u.p.vel_y <= MaxFall * GRAVITY

(* ----------------------------- GAME LOOP ------------------------------ *)
\* what the last frame did: no pass, no fire, no projectile spawned
NoLog == [order |-> <<>>, fire |-> FALSE, spawned |-> 0, dash |-> FALSE,
          dashed |-> FALSE, since_dash |-> DASH_COOLDOWN,
          fulls |-> 0, doubles |-> 0, died |-> FALSE, respawned_at |-> <<>>]

\* no unit of the program is being exercised on its own
NoProbe == [kind |-> "none"]

\* (mutant) the pause key is not held back by a running transition
PauseAllowed_intransition(go, w, timer) == ~go /\ ~w

\* the guard of the pause key in the event loop
PauseAllowed(go, w, timer) == ~go /\ ~w /\ timer = 0

\* the event loop's KEYDOWN branch for K_p, over the frame's events in order
RECURSIVE Toggle(_, _)
Toggle(pz, ev) ==
  IF ev = <<>> THEN pz
  ELSE Toggle(IF Head(ev) = "P"
                 /\ PauseAllowed(game_over, win, level_transition_timer)
              THEN ~pz ELSE pz, Tail(ev))

\* (mutant) a won game keeps simulating
Frozen_nowin(pz, go, w, timer) == pz \/ go \/ timer > 0

\* the test that sends a frame to the overlay branch instead of simulating
Frozen(pz, go, w, timer) == pz \/ go \/ w \/ timer > 0

\* (mutant) the countdown lasts a whole second
TransitionFrames_long == (FPS * 10) \div 10

\* int(FPS * 0.9)
TransitionFrames == (FPS * 9) \div 10

\* (mutant) the debounce ends one frame early
ClearExpired_early(cool) == cool * 10 >= FPS * 12

\* level_clear_cool > FPS * 1.2
ClearExpired(cool) == cool * 10 > FPS * 12

\* (mutant) the last life is not counted
NoLivesLeft_late(lives) == lives < 0

\* the test after each loss of a life
NoLivesLeft(lives) == lives <= 0

\* (mutant) an overlapped flag is activated again
RECURSIVE TouchCheckpoints_again(_, _, _, _, _)
TouchCheckpoints_again(cps, touched, i, rp, timer) ==
  IF i > Len(cps) THEN [checkpoints |-> cps, respawn_point |-> rp, timer |-> timer]
  ELSE IF i \in touched
       THEN TouchCheckpoints_again([cps EXCEPT ![i].activated = TRUE], touched,
                                   i + 1, cps[i].respawn_point, TransitionFrames)
       ELSE TouchCheckpoints_again(cps, touched, i + 1, rp, timer)

\* (mutant) an activated flag becomes the respawn point but starts no
\* transition
RECURSIVE TouchCheckpoints_notimer(_, _, _, _, _)
TouchCheckpoints_notimer(cps, touched, i, rp, timer) ==
  IF i > Len(cps) THEN [checkpoints |-> cps, respawn_point |-> rp, timer |-> timer]
  ELSE IF i \in touched /\ ~cps[i].activated
       THEN TouchCheckpoints_notimer([cps EXCEPT ![i].activated = TRUE], touched,
                                     i + 1, cps[i].respawn_point, timer)
       ELSE TouchCheckpoints_notimer(cps, touched, i + 1, rp, timer)

\* the checkpoint loop: each overlapped flag that is not yet activated is
\* activated, becomes the respawn point and starts the transition timer
RECURSIVE TouchCheckpoints(_, _, _, _, _)
TouchCheckpoints(cps, touched, i, rp, timer) ==
  IF i > Len(cps) THEN [checkpoints |-> cps, respawn_point |-> rp, timer |-> timer]
  ELSE IF i \in touched /\ ~cps[i].activated
       THEN TouchCheckpoints([cps EXCEPT ![i].activated = TRUE], touched, i + 1,
                             cps[i].respawn_point, TransitionFrames)
       ELSE TouchCheckpoints(cps, touched, i + 1, rp, timer)

\* the level clear fallback at the end of a simulated frame
ClearFallback(n_enemies, n_collectibles, timer, cool) ==
  IF n_enemies = 0 /\ n_collectibles = 0 /\ timer = 0
  THEN IF ClearExpired(cool + 1)
       THEN [timer |-> TransitionFrames, cool |-> 0]
       ELSE [timer |-> timer, cool |-> cool + 1]
  ELSE IF ~(n_enemies = 0 /\ n_collectibles = 0)
       THEN [timer |-> timer, cool |-> 0]
       ELSE [timer |-> timer, cool |-> cool]

\* (mutant) the stage bonus does not grow with the stage number
LevelBonus_flat(n) == STAGE_BONUS

\* player.score += 500 * level_num, with level_num already advanced
LevelBonus(n) == STAGE_BONUS * n

\* the overlay branch: nothing is simulated; a running transition timer
\* counts down and, at zero, advances the level
FrozenFrame(pz) ==
  /\ paused' = pz
  /\ pass' = "overlay"
  /\ frame_log' = [NoLog EXCEPT !.since_dash = frame_log.since_dash,
                               !.fulls = frame_log.fulls,
                               !.doubles = frame_log.doubles]
  /\ UNCHANGED <<game_over, level_clear_cool, bullets, enemy_bullets,
                 jumped, air, touching, clear_run, probe>>
  /\ IF level_transition_timer > 0
     THEN /\ level_transition_timer' = level_transition_timer - 1
          /\ IF level_transition_timer - 1 <= 0
             THEN /\ level_num' = level_num + 1
                  /\ IF level_num + 1 > MAX_LEVEL
                     THEN /\ win' = TRUE
                          /\ UNCHANGED <<level_data, enemies, collectibles,
                                         checkpoints, player_spawn,
                                         respawn_point, player>>
                     ELSE LET ld == LEVELS[level_num + 1]
                          IN /\ level_data' = ld
                             /\ enemies' = ld.enemies
                             /\ collectibles' = ld.collectibles
                             /\ checkpoints' = ld.checkpoints
                             /\ player_spawn' = ld.spawn
                             /\ respawn_point' = ld.spawn
                             /\ player' =
                                  [respawn(player, ld.spawn) EXCEPT
                                     !.lives = Max(1, @),
                                     !.score = @ + LevelBonus(level_num + 1)]
                             /\ UNCHANGED win
             ELSE UNCHANGED <<level_num, win, level_data, enemies, collectibles,
                              checkpoints, player_spawn, respawn_point, player>>
     ELSE UNCHANGED <<level_transition_timer, level_num, win, level_data,
                      enemies, collectibles, checkpoints, player_spawn,
                      respawn_point, player>>

\* the passes of a simulated frame, in the order of the statements:
\* player.update, bullets.update, the enemies' update, enemy_bullets.update,
\* then the collisions
UpdateOrder == <<"player", "bullets", "enemies", "enemy_bullets", "resolve">>

\* one simulated frame: player, projectiles, enemies, then the interactions
PlayingFrame(p0, u, in) ==
  LET died == u.outcome = "died"
      p1 == IF died THEN respawn(u.p, respawn_point) ELSE u.p
      go1 == IF died /\ NoLivesLeft(p1.lives) THEN TRUE ELSE game_over
      \* bullets.update(), enemies' update, enemy_bullets.update()
      b1 == bullets + u.spawn - in.gone
      e1 == enemy_bullets + in.shots - in.egone
      \* bullet collisions
      b2 == b1 - in.kills
      n2 == enemies - in.kills
      score2 == p1.score + KILL_SCORE * in.kills
      e2 == e1 - in.hits
      lives2 == p1.lives - in.hits
      go2 == IF in.hits > 0 /\ NoLivesLeft(lives2) THEN TRUE ELSE go1
      \* touch enemy
      lives3 == IF in.touch THEN lives2 - 1 ELSE lives2
      rect3 == IF in.touch THEN [p1.rect EXCEPT !.moved = TRUE] ELSE p1.rect
      go3 == IF in.touch /\ NoLivesLeft(lives3) THEN TRUE ELSE go2
      \* collect collectibles
      c4 == collectibles - in.collect
      score4 == score2 + COLLECT_SCORE * in.collect
      \* checkpoint interaction
      t5 == TouchCheckpoints(checkpoints, in.touchcp, 1, respawn_point,
                             level_transition_timer)
      \* level clear fallback
      f6 == ClearFallback(n2, c4, t5.timer, level_clear_cool)
  IN /\ player' = [p1 EXCEPT !.lives = lives3, !.score = score4, !.rect = rect3]
     /\ game_over' = go3
     /\ bullets' = b2
     /\ enemy_bullets' = e2
     /\ enemies' = n2
     /\ collectibles' = c4
     /\ checkpoints' = t5.checkpoints
     /\ respawn_point' = t5.respawn_point
     /\ level_transition_timer' = f6.timer
     /\ level_clear_cool' = f6.cool
     /\ jumped' = u.jumped
     /\ air' = IF u.p.on_ground THEN 0 ELSE Min(air + 1, COYOTE_TIME + 1)
     /\ pass' = "simulated"
     /\ touching' = in.touchcp
     /\ clear_run' = IF n2 = 0 /\ c4 = 0
                      THEN Min(clear_run + 1, (FPS * 12) \div 10 + 2) ELSE 0
     /\ paused' = FALSE
     /\ frame_log' = [order |-> UpdateOrder, fire |-> in.fire,
                      spawned |-> u.spawn, dash |-> in.dash,
                      dashed |-> u.dashed,
                      since_dash |-> IF u.dashed THEN 0
                                     ELSE Min(frame_log.since_dash + 1,
                                              DASH_COOLDOWN),
                      fulls |-> IF u.p.on_ground THEN 0
                                ELSE IF u.jumped = "full"
                                     THEN Min(frame_log.fulls + 1, 2)
                                     ELSE frame_log.fulls,
                      doubles |-> IF u.p.on_ground THEN 0
                                  ELSE IF u.jumped = "double"
                                       THEN Min(frame_log.doubles + 1, 2)
                                       ELSE frame_log.doubles,
                      died |-> died,
                      respawned_at |-> IF died THEN respawn_point ELSE <<>>]
     /\ UNCHANGED <<level_num, win, level_data, player_spawn, probe>>

\* the player's rectangle is off its spawn tile when the interactions are
\* resolved: no collectible and no flag stands on a spawn tile
Away(u, touch) == (u.p.rect.moved /\ u.outcome # "died") \/ touch

\* the keys and rectangles of one simulated frame, within the limits `lim`
\* and within what the groups of the frame allow: no more projectiles leave,
\* hit or are hit than there are, only a level with 'E' cells has shooters,
\* at most MaxEnemyBullets enemy projectiles are alive, and collectibles and
\* flags are met away from the spawn tile
Simulate(ev, lim) ==
  LET p0 == handle_events(player, ev)
  IN \E left \in lim.left, right \in lim.right, dash \in lim.dash,
        fire \in {f \in lim.fire : f => bullets < lim.live}, hitx \in lim.hitx, hity \in lim.hity,
        fell \in lim.fell :
       LET k == [left |-> left, right |-> right, dash |-> dash, fire |-> fire,
                 hitx |-> hitx, hity |-> hity, fell |-> fell]
           u == update(p0, k, level_data, bullets)
           b0 == bullets + u.spawn
           canshoot == IF level_data.shooters /\ enemies > 0
                       THEN Min(lim.shots, MaxEnemyBullets - enemy_bullets)
                       ELSE 0
       IN /\ UpdateFeasible(p0, k, level_data, u)
          /\ \E gone \in 0..Min(lim.gone, b0), shots \in 0..canshoot :
               \E kills \in 0..Min(lim.kills, Min(b0 - gone, enemies)),
                  egone \in 0..Min(lim.egone, enemy_bullets + shots) :
                 \E hits \in 0..Min(lim.hits, enemy_bullets + shots - egone),
                    touch \in {t \in lim.touch : t => enemies - kills > 0} :
                   \E collect \in 0..Min(lim.collect,
                                        IF Away(u, touch) THEN collectibles ELSE 0),
                      touchcp \in {c \in lim.touchcp :
                                   /\ c \subseteq 1..Len(checkpoints)
                                   /\ c # {} => Away(u, touch)
                                   /\ (c # {} /\ lim.clearfirst)
                                        => enemies + collectibles = 0} :
                     PlayingFrame(p0, u,
                       [fire |-> fire, dash |-> dash, gone |-> gone, shots |-> shots, kills |-> kills,
                        egone |-> egone, hits |-> hits, touch |-> touch,
                        collect |-> collect, touchcp |-> touchcp])

\* one pass of the while loop of run_game without a restart or quit event
Frame(ev, lim) ==
  LET pz == Toggle(paused, ev)
  IN IF Frozen(pz, game_over, win, level_transition_timer)
     THEN FrozenFrame(pz)
     ELSE Simulate(ev, lim)

\* run_game up to the loop: level 1 is loaded and the player put on its spawn
GameStart ==
  LET ld == LEVELS[1]
  IN /\ level_data = ld
     /\ enemies = ld.enemies
     /\ collectibles = ld.collectibles
     /\ checkpoints = ld.checkpoints
     /\ player_spawn = ld.spawn
     /\ player = Player(ld.spawn)
     /\ bullets = 0
     /\ enemy_bullets = 0
     /\ level_num = 1
     /\ paused = FALSE
     /\ game_over = FALSE
     /\ win = FALSE
     /\ level_clear_cool = 0
     /\ level_transition_timer = 0
     /\ respawn_point = ld.spawn
     /\ jumped = "none"
     /\ air = COYOTE_TIME + 1
     /\ pass = "start"
     /\ touching = {}
     /\ clear_run = 0
     /\ frame_log = NoLog

Init == GameStart /\ probe = NoProbe

\* a K_r event: run_game returns True and the entry point calls it again
Restart ==
  /\ LET ld == LEVELS[1]
     IN /\ level_data' = ld
        /\ enemies' = ld.enemies
        /\ collectibles' = ld.collectibles
        /\ checkpoints' = ld.checkpoints
        /\ player_spawn' = ld.spawn
        /\ player' = Player(ld.spawn)
        /\ respawn_point' = ld.spawn
  /\ bullets' = 0
  /\ enemy_bullets' = 0
  /\ level_num' = 1
  /\ paused' = FALSE
  /\ game_over' = FALSE
  /\ win' = FALSE
  /\ level_clear_cool' = 0
  /\ level_transition_timer' = 0
  /\ jumped' = "none"
  /\ air' = COYOTE_TIME + 1
  /\ pass' = "start"
  /\ touching' = {}
  /\ clear_run' = 0
  /\ frame_log' = NoLog
  /\ UNCHANGED probe

(* ------------------------------ inputs -------------------------------- *)
\* the event lists of a frame, over the given kinds of event
RECURSIVE EventLists(_, _)
EventLists(kinds, n) ==
  IF n = 0 THEN {<<>>}
  ELSE LET shorter == EventLists(kinds, n - 1)
       IN shorter \cup {Append(e, k) : e \in shorter, k \in kinds}

\* the life cycle: pause key, fire, falls, hits, kills, pickups, the flag
LifeInputs ==
  [left |-> {FALSE}, right |-> BOOLEAN, dash |-> {FALSE}, fire |-> {FALSE},
   hitx |-> {FALSE}, hity |-> BOOLEAN, fell |-> BOOLEAN, gone |-> 0,
   live |-> 0, shots |-> 1, egone |-> 0, kills |-> 0, hits |-> MaxEnemyBullets,
   touch |-> BOOLEAN, collect |-> 0, touchcp |-> {{}, {1}},
   clearfirst |-> FALSE]

\* clearing a level: fire, kills, pickups, the pause key, and the flag once
\* the level is cleared
ClearInputs ==
  [left |-> {FALSE}, right |-> BOOLEAN, dash |-> {FALSE}, fire |-> BOOLEAN,
   hitx |-> {FALSE}, hity |-> {TRUE}, fell |-> {FALSE}, gone |-> 1,
   live |-> MaxPlayerBullets, shots |-> 0, egone |-> 0, kills |-> 1, hits |-> 0,
   touch |-> {FALSE}, collect |-> 1, touchcp |-> {{}, {1}},
   clearfirst |-> TRUE]

\* jumping: the jump keys, platforms under and over the player, falls
JumpInputs ==
  [left |-> {FALSE}, right |-> {FALSE}, dash |-> {FALSE}, fire |-> {FALSE},
   hitx |-> {FALSE}, hity |-> BOOLEAN, fell |-> BOOLEAN, gone |-> 0,
   live |-> 0, shots |-> 0, egone |-> 0, kills |-> 0, hits |-> 0,
   touch |-> {FALSE}, collect |-> 0, touchcp |-> {{}}, clearfirst |-> FALSE]

\* shooting: the fire button at any frame, projectiles that leave the level
\* or kill an enemy, the pause key
FireInputs ==
  [left |-> {FALSE}, right |-> {FALSE}, dash |-> {FALSE}, fire |-> BOOLEAN,
   hitx |-> {FALSE}, hity |-> {TRUE}, fell |-> {FALSE}, gone |-> 1,
   live |-> MAX_BULLETS + 1, shots |-> 0, egone |-> 0, kills |-> 1, hits |-> 0,
   touch |-> {FALSE}, collect |-> 0, touchcp |-> {{}}, clearfirst |-> FALSE]

\* dashing: the direction keys and the dash key at any frame, walls, the
\* pause key
DashInputs ==
  [left |-> BOOLEAN, right |-> BOOLEAN, dash |-> BOOLEAN, fire |-> {FALSE},
   hitx |-> BOOLEAN, hity |-> {TRUE}, fell |-> {FALSE}, gone |-> 0,
   live |-> 0, shots |-> 0, egone |-> 0, kills |-> 0, hits |-> 0,
   touch |-> {FALSE}, collect |-> 0, touchcp |-> {{}}, clearfirst |-> FALSE]

NextDash ==
  \/ \E ev \in EventLists({"P"}, MaxEvents) : Frame(ev, DashInputs)
  \/ Restart

SpecDash == Init /\ [][NextDash]_vars

NextFire ==
  \/ \E ev \in EventLists({"P"}, MaxEvents) : Frame(ev, FireInputs)
  \/ Restart

SpecFire == Init /\ [][NextFire]_vars

NextJump ==
  \/ \E ev \in EventLists({"JUMP"}, MaxEvents) : Frame(ev, JumpInputs)
  \/ Restart

SpecJump == Init /\ [][NextJump]_vars

\* the checkpoint pass of a frame, on any flag, respawn point and timer
InitFlag ==
  \E n \in 1..MAX_LEVEL, act \in BOOLEAN, t \in 0..TransitionFrames :
    LET ld == LEVELS[n]
    IN /\ level_data = ld
       /\ enemies = ld.enemies
       /\ collectibles = ld.collectibles
       /\ checkpoints = [i \in 1..Len(ld.checkpoints) |->
                            [ld.checkpoints[i] EXCEPT !.activated = act]]
       /\ player_spawn = ld.spawn
       /\ player = Player(ld.spawn)
       /\ respawn_point \in {ld.spawn} \cup
                            {ld.checkpoints[i].respawn_point : i \in 1..Len(ld.checkpoints)}
       /\ level_transition_timer = t
       /\ level_num = n
       /\ bullets = 0
       /\ enemy_bullets = 0
       /\ paused = FALSE
       /\ game_over = FALSE
       /\ win = FALSE
       /\ level_clear_cool = 0
       /\ jumped = "none"
       /\ air = COYOTE_TIME + 1
       /\ pass = "start"
       /\ touching = {}
       /\ clear_run = 0
       /\ frame_log = NoLog
       /\ probe = NoProbe

FlagPass ==
  \E touched \in SUBSET (1..Len(checkpoints)) :
    LET t == TouchCheckpoints(checkpoints, touched, 1, respawn_point,
                              level_transition_timer)
    IN /\ checkpoints' = t.checkpoints
       /\ respawn_point' = t.respawn_point
       /\ level_transition_timer' = t.timer
       /\ touching' = touched
       /\ pass' = "simulated"
       /\ UNCHANGED <<level_num, paused, game_over, win, level_clear_cool,
                      player_spawn, level_data, enemies, collectibles, bullets,
                      enemy_bullets, player, jumped, air, clear_run,
                      frame_log, probe>>

SpecFlag == InitFlag /\ [][FlagPass]_vars

NextClear ==
  \/ \E ev \in EventLists({"P"}, MaxEvents) : Frame(ev, ClearInputs)
  \/ Restart

SpecClear == Init /\ [][NextClear]_vars

Next ==
  \/ \E ev \in EventLists({"P"}, MaxEvents) : Frame(ev, LifeInputs)
  \/ Restart

Spec == Init /\ [][Next]_vars

(* ----------------------- COLLISION, in pixels ------------------------- *)
\* pygame.Rect.colliderect on rectangles [x, y, w, h]
colliderect(a, b) ==
  /\ a.x < b.x + b.w /\ b.x < a.x + a.w
  /\ a.y < b.y + b.h /\ b.y < a.y + a.h

\* Platform(x, y, TILE, TILE) of the '#' cell <<row, col>>
Platform(cell) == [x |-> cell[2] * TILE, y |-> cell[1] * TILE, w |-> TILE, h |-> TILE]

\* pygame.sprite.spritecollide: the platforms the rectangle overlaps, in the
\* order of the group (the order the cells were added: row by row)
spritecollide(rect, platforms) ==
  SelectSeq(platforms, LAMBDA cell : colliderect(rect, Platform(cell)))

\* the loop of Player.collide over the hits found before the loop
RECURSIVE CollideLoop(_, _, _)
CollideLoop(b, hits, dir) ==
  IF hits = <<>> THEN b
  ELSE LET q == Platform(Head(hits))
           bx == IF dir = "x"
                 THEN [b EXCEPT !.rect.x = IF b.vel_x > 0 THEN q.x - b.rect.w
                                           ELSE IF b.vel_x < 0 THEN q.x + q.w
                                           ELSE @,
                                !.vel_x = 0]
                 ELSE b
           by == IF dir = "y"
                 THEN IF bx.vel_y > 0
                      THEN [bx EXCEPT !.rect.y = q.y - bx.rect.h,
                                      !.on_ground = TRUE, !.vel_y = 0]
                      ELSE IF bx.vel_y < 0
                           THEN [bx EXCEPT !.rect.y = q.y + q.h, !.vel_y = 0]
                           ELSE bx
                 ELSE bx
       IN CollideLoop(by, Tail(hits), dir)

\* Player.collide
collide(b, platforms, dir) ==
  CollideLoop(b, spritecollide(b.rect, platforms), dir)

\* the cells of the platforms around the player: two neighbours of one row
NearCells == {<<1, 1>>, <<1, 2>>}

\* the platform group: the '#' cells of the chosen set, row by row
RECURSIVE GroupOf(_)
GroupOf(cells) ==
  IF cells = {} THEN <<>>
  ELSE LET first == CHOOSE c \in cells : \A d \in cells :
                       c[1] < d[1] \/ (c[1] = d[1] /\ c[2] <= d[2])
       IN <<first>> \o GroupOf(cells \ {first})

\* a player (34 x 46) that overlaps no platform, with the velocity the keys
\* and the jump block left it, before the physics of Player.update
InitCollide ==
  /\ GameStart
  /\ \E cells \in SUBSET NearCells, x \in 0..MaxX, y \in {0, 2, 20, 96},
        vx \in {-DASH_SPEED, -PLAYER_SPEED, 0, PLAYER_SPEED, DASH_SPEED},
        vy \in {-GRAVITY, 0, 420} :
       LET rect == [x |-> x, y |-> y, w |-> 34, h |-> 46]
           platforms == GroupOf(cells)
       IN /\ spritecollide(rect, platforms) = <<>>
          /\ probe = [kind |-> "collide", phase |-> "start", knocked |-> FALSE,
                      rect |-> rect, vel_x |-> vx, vel_y |-> vy,
                      on_ground |-> FALSE, platforms |-> platforms,
                      rect0 |-> rect, vx0 |-> vx, dy |-> 0,
                      hitx |-> FALSE, hity |-> FALSE]

\* touch enemy: player.rect.x -= 60, with no collision test
Knock ==
  /\ probe.kind = "collide" /\ probe.phase = "start" /\ ~probe.knocked
  /\ probe' = [probe EXCEPT !.rect.x = @ - KNOCKBACK, !.knocked = TRUE,
                            !.rect0.x = @ - KNOCKBACK]
  /\ UNCHANGED gamevars

\* the physics of Player.update up to collide(platforms, 'x')
StepX ==
  /\ probe.kind = "collide" /\ probe.phase = "start"
  /\ LET b1 == [probe EXCEPT !.vel_y = @ + GRAVITY, !.rect.x = @ + probe.vel_x]
         hits == spritecollide(b1.rect, probe.platforms)
     IN probe' = [collide(b1, probe.platforms, "x") EXCEPT
                    !.phase = "x", !.hitx = hits # <<>>]
  /\ UNCHANGED gamevars

\* the physics of Player.update from the Y move to collide(platforms, 'y')
StepY ==
  /\ probe.kind = "collide" /\ probe.phase = "x"
  /\ LET b1 == [probe EXCEPT !.rect.y = @ + Round(probe.vel_y)]
         hits == spritecollide(b1.rect, probe.platforms)
     IN probe' = [collide(b1, probe.platforms, "y") EXCEPT
                    !.phase = "y", !.hity = hits # <<>>,
                    !.dy = Round(probe.vel_y)]
  /\ UNCHANGED gamevars

NextCollide == Knock \/ StepX \/ StepY

SpecCollide == InitCollide /\ [][NextCollide]_vars

(* ------------------------------- ENEMY -------------------------------- *)
\* Python's round() of a value in hundredths: to nearest, halves to even
round(v) ==
  LET a == IF v < 0 THEN -v ELSE v
      q == a \div 100
      r == a % 100
      n == IF r > 50 \/ (r = 50 /\ q % 2 = 1) THEN q + 1 ELSE q
  IN IF v < 0 THEN -n ELSE n

\* Enemy.__init__ (x is rect.centerx)
Enemy(x, etype, speed, dir, shoot_timer) ==
  [x |-> x, type |-> etype, speed |-> speed, dir |-> dir, aggro |-> FALSE,
   shoot_timer |-> shoot_timer, vel_y |-> 0]

\* (mutant) only the ground probe turns the enemy round
ProbeBlocked_nowall(ground_hit, wall_hit) == ~ground_hit

\* not ground_hit or wall_hit
ProbeBlocked(ground_hit, wall_hit) == ~ground_hit \/ wall_hit

\* (mutant) a player exactly 400 pixels away also wakes the chaser
InAggroRange_inclusive(px, x) == (IF px >= x THEN px - x ELSE x - px) <= 400

\* abs(player.rect.centerx - self.rect.centerx) < 400
InAggroRange(px, x) == (IF px >= x THEN px - x ELSE x - px) < 400

\* Enemy.update; `in` gives what the rectangles and the random source yield:
\* ground_hit, wall_hit, the player's centerx, whether a platform is met by
\* the vertical move, and the next shoot_timer drawn
Enemy_update(e, in) ==
  LET blocked == ProbeBlocked(in.ground_hit, in.wall_hit)
      walker == e.type \in {"patrol", "chaser"}
      near == InAggroRange(in.px, e.x)
      aggro == IF e.type = "chaser" /\ ~blocked /\ near THEN TRUE ELSE e.aggro
      chase == e.type = "chaser" /\ ~blocked /\ aggro
      x1 == IF ~walker \/ blocked THEN e.x
            ELSE IF e.type = "patrol" THEN e.x + round(e.speed * e.dir)
            ELSE IF ~aggro THEN e.x
            ELSE IF in.px < e.x THEN e.x - round(e.speed)
            ELSE e.x + round(e.speed)
      dir1 == IF walker /\ blocked THEN -e.dir
              ELSE IF chase THEN (IF in.px < e.x THEN -1 ELSE 1)
              ELSE e.dir
      t1 == IF e.type = "shooter" THEN e.shoot_timer - 1 ELSE e.shoot_timer
      fires == e.type = "shooter" /\ t1 <= 0
      vy1 == e.vel_y + GRAVITY
  IN [e |-> [e EXCEPT !.x = x1, !.dir = dir1, !.aggro = aggro,
                      !.shoot_timer = IF fires THEN in.timer ELSE t1,
                      !.vel_y = IF in.land /\ vy1 > 0 THEN 0 ELSE vy1],
      shots |-> IF fires THEN 1 ELSE 0]

\* the speeds an enemy is made with: random.uniform(0.8, 1.6) on an 'E'
\* cell (its ends and the value that rounds half-way), a tier's enemy_speed
\* for the enemies load_level adds
EnemySpeeds(etype) ==
  IF etype = "shooter" THEN {80, 160}
  ELSE {80, 150, 160} \cup {DIFFICULTY[t].enemy_speed : t \in DOMAIN DIFFICULTY}

\* where the player's centre is, from the enemy's: either side, next to it
\* and at the edge of the 400 pixels
PlayerOffsets == {-400, -399, -1, 0, 1, 399, 400}

\* one enemy as Enemy.__init__ leaves it, on a stretch of MaxEnemyX pixels
InitEnemy ==
  /\ GameStart
  /\ \E etype \in {"patrol", "chaser", "shooter"}, dir \in {-1, 1} :
       \E speed \in EnemySpeeds(etype),
          x \in IF etype = "shooter" THEN {0} ELSE 0..MaxEnemyX,
          timer \in IF etype = "shooter" THEN {30, 120} ELSE {30} :
         probe = [kind |-> "enemy", e |-> Enemy(x, etype, speed, dir, timer),
                  updated |-> FALSE, ground_hit |-> FALSE, wall_hit |-> FALSE,
                  px |-> x, shots |-> 0]

\* one call of Enemy.update from the frame's enemy loop; the probes are
\* only made for a patrol or a chaser, the player's place only matters to a
\* chaser and a new shoot_timer is only drawn for a shooter
EnemyStep ==
  /\ probe.kind = "enemy"
  /\ \E ground_hit \in IF probe.e.type = "shooter" THEN {FALSE} ELSE BOOLEAN,
        wall_hit \in IF probe.e.type = "shooter" THEN {FALSE} ELSE BOOLEAN,
        land \in BOOLEAN,
        d \in IF probe.e.type = "chaser" THEN PlayerOffsets ELSE {0},
        timer \in IF probe.e.type = "shooter" THEN {40, 120} ELSE {40} :
       LET u == Enemy_update(probe.e,
                  [ground_hit |-> ground_hit, wall_hit |-> wall_hit,
                   px |-> probe.e.x + d, land |-> land, timer |-> timer])
       IN /\ u.e.x \in 0..MaxEnemyX
          /\ u.e.vel_y <= MaxFall * GRAVITY
          /\ probe' = [probe EXCEPT !.e = u.e, !.updated = TRUE,
                         !.ground_hit = ground_hit, !.wall_hit = wall_hit,
                         !.px = probe.e.x + d, !.shots = u.shots]
  /\ UNCHANGED gamevars

SpecEnemy == InitEnemy /\ [][EnemyStep]_vars

(* ------------------------------ claims -------------------------------- *)\* a frame that simulates: not paused, not over, not won, no transition
Playing == ~paused /\ ~game_over /\ ~win /\ level_transition_timer = 0

\* C1: the player's lives are >= 0 in every reachable state, whatever losses
\* (fall, enemy projectile, enemy contact) meet in one frame.
C1_LivesNeverNegative == player.lives >= 0

\* C2: in a simulated frame in which lives reaches 0 game_over is set before
\* the frame ends, and game_over is never set in a frame that ends with lives
\* still positive.
C2_GameOverExactlyAtZero ==
  [][/\ (player.lives > 0 /\ player'.lives <= 0) => game_over'
     /\ (~game_over /\ game_over') => (player'.lives <= 0 /\ pass' = "simulated")]_vars

C2_Witness ==
  game_over /\ player.lives = 0 /\ pass = "simulated"

\* C3: once game_over is set the simulation is frozen: until a restart, lives,
\* score, stage index, position, velocity, respawn point and the level's
\* groups stay as they are.
C3_FrozenAfterGameOver ==
  [][(game_over /\ game_over')
       => UNCHANGED <<player, level_num, respawn_point, level_data, enemies,
                      collectibles, checkpoints>>]_vars

\* C4: when the transition countdown reaches zero and the new stage index is
\* at most MAX_LEVEL, the next frame simulates.
C4_PlayingAfterTransition ==
  [][(level_transition_timer = 1 /\ pass' = "overlay" /\ level_num + 1 <= 6)
       => (level_transition_timer' = 0 /\ ~paused' /\ ~game_over' /\ ~win')]_vars

\* C5: touching an activated checkpoint leaves it activated, leaves the
\* respawn point as it is and neither starts nor re-arms the transition
\* countdown; activated never returns to false.
C5_ActivationIdempotent ==
  [][\A i \in 1..Len(checkpoints) :
        checkpoints[i].activated
          => /\ Len(checkpoints') = Len(checkpoints)
             /\ checkpoints'[i].activated
             /\ respawn_point' = respawn_point
             /\ level_transition_timer' = level_transition_timer]_vars

C5_Witness ==
  /\ pass = "simulated" /\ touching = {1}
  /\ checkpoints[1].activated
  /\ level_transition_timer = 0
  /\ respawn_point = player_spawn

\* C6: in a Player.update that starts off the ground with the coyote timer at
\* 0 and the double jump used, a buffered jump request gives no impulse: the
\* vertical velocity only gains gravity (or is stopped by a platform) and the
\* charge stays used unless the player lands.
C6_NoThirdJump ==
  [][(/\ pass' = "simulated"
      /\ ~player.on_ground /\ player.coyote_timer = 0 /\ ~player.double_jump
      /\ (player.jump_buffer > 0 \/ player'.jump_buffer = JUMP_BUFFER - 1
             \/ jumped' # "none"))
       => /\ jumped' = "none"
          /\ player'.vel_y \in {player.vel_y + 80, 0}
          /\ player'.double_jump = player'.on_ground]_vars

C6_Witness ==
  /\ pass = "simulated" /\ jumped = "none"
  /\ ~player.on_ground /\ player.coyote_timer = 0 /\ ~player.double_jump
  /\ player.jump_buffer \in 1..(JUMP_BUFFER - 2)
  /\ player.vel_y = (-1500 * 95) \div 100 + 3 * 80

C8_ClearDebounce ==
  [][pass' = "simulated" =>
       /\ enemies' + collectibles' > 0 => level_clear_cool' = 0
       /\ (level_transition_timer' > 0 /\ checkpoints' = checkpoints)
            => (clear_run >= 72 /\ enemies' + collectibles' = 0
                  /\ level_transition_timer' = 54)
       /\ (enemies' + collectibles' = 0 /\ checkpoints' = checkpoints
              /\ level_transition_timer = 0)
            => IF level_clear_cool = 72
               THEN level_transition_timer' = 54 /\ level_clear_cool' = 0
               ELSE /\ level_transition_timer' = 0
                    /\ level_clear_cool' = level_clear_cool + 1]_vars

C8_Witness ==
  /\ pass = "simulated" /\ level_transition_timer = 54
  /\ \A i \in 1..Len(checkpoints) : ~checkpoints[i].activated
  /\ clear_run = 73 /\ level_clear_cool = 0 /\ ~paused /\ ~game_over

\* C9: when the countdown completes past MAX_LEVEL win is set and no level
\* is loaded; afterwards no frame simulates or changes stage index, lives or
\* score until a restart; win holds exactly when the stage index is
\* MAX_LEVEL + 1, which it never exceeds.
C9_Win ==
  /\ [](win <=> level_num = 6 + 1)
  /\ [](level_num <= 6 + 1)
  /\ [][(level_transition_timer = 1 /\ pass' = "overlay" /\ level_num = 6)
           => /\ win'
              /\ UNCHANGED <<level_data, enemies, collectibles, checkpoints,
                             player, respawn_point, player_spawn>>]_vars
  /\ [][(win /\ win')
           => /\ pass' = "overlay"
              /\ UNCHANGED <<level_num, player, level_data, enemies,
                             collectibles, checkpoints, bullets,
                             enemy_bullets, level_transition_timer>>]_vars

C9_Witness ==
  win /\ pass = "overlay" /\ level_num = 7 /\ ~game_over /\ player.lives = 3

\* C10: the pause key flips paused only in Playing or Paused: not while the
\* countdown runs, nor when game_over or win holds; while paused nothing of
\* the simulation changes, so the second toggle resumes from the state the
\* game was paused in.
C10_PauseToggle ==
  /\ [](paused => (~game_over /\ ~win /\ level_transition_timer = 0))
  /\ [][(paused' # paused /\ pass' # "start")
           => (~game_over /\ ~win /\ level_transition_timer = 0)]_vars
  /\ [][(paused /\ pass' # "start")
           => IF paused'
              THEN UNCHANGED <<level_num, game_over, win, level_clear_cool,
                               level_transition_timer, respawn_point,
                               player_spawn, level_data, enemies, collectibles,
                               checkpoints, bullets, enemy_bullets, player>>
              ELSE pass' = "simulated"]_vars

C10_Witness ==
  paused /\ pass = "overlay" /\ player.lives = 2 /\ level_num = 2

\* C11: when the countdown completes with new stage number n <= MAX_LEVEL the
\* level advance floors lives at 1, adds 500 * n to the score, puts the player
\* on the new level's spawn with zero velocity, makes that spawn the respawn
\* point and replaces the level's groups; with n > MAX_LEVEL none of these
\* change.
C11_LevelAdvance ==
  [][(level_transition_timer = 1 /\ pass' = "overlay")
       => LET n == level_num + 1
              spawns == <<(<<312, 336>>), (<<312, 240>>), (<<408, 240>>)>>
              flags == <<(<<1896, 308>>), (<<2136, 212>>), (<<1896, 212>>)>>
              count == <<4, 6, 8, 10, 12, 12>>
              t == ((n - 1) % 3) + 1
          IN IF n <= 6
             THEN /\ level_num' = n
                  /\ player'.lives = IF player.lives >= 1 THEN player.lives ELSE 1
                  /\ player'.score = player.score + 500 * n
                  /\ player'.rect = [at |-> spawns[t], moved |-> FALSE]
                  /\ player'.vel_x = 0 /\ player'.vel_y = 0
                  /\ respawn_point' = spawns[t] /\ player_spawn' = spawns[t]
                  /\ enemies' = count[n] /\ collectibles' = 1
                  /\ checkpoints' = <<[activated |-> FALSE, respawn_point |-> flags[t]]>>
                  /\ level_data'.n = n /\ level_data'.spawn = spawns[t]
             ELSE UNCHANGED <<player, respawn_point, player_spawn, enemies,
                              collectibles, checkpoints, level_data>>]_vars

C11_Witness ==
  /\ pass = "overlay" /\ level_transition_timer = 0 /\ level_num = 2
  /\ game_over /\ player.lives = 1 /\ player.score = 1000
  /\ player.rect = [at |-> <<312, 240>>, moved |-> FALSE]
  /\ respawn_point = <<312, 240>> /\ enemies = 6

\* C12: a transition is armed with 54 by a simulated frame only; while the
\* countdown runs every frame is an overlay frame that takes one off it and
\* leaves paused false, so 54 frames that do not simulate follow; the stage
\* index goes up by one in the frame that takes the countdown from 1 to 0 and
\* in no other; the countdown is never armed again while it runs.
C12_TransitionCountdown ==
  [][pass' # "start" =>
       /\ (level_transition_timer = 0 /\ level_transition_timer' > 0)
            => (level_transition_timer' = 54 /\ pass' = "simulated")
       /\ level_transition_timer > 0
            => /\ pass' = "overlay"
               /\ level_transition_timer' = level_transition_timer - 1
               /\ ~paused /\ ~paused'
               /\ level_num' = IF level_transition_timer = 1
                                THEN level_num + 1 ELSE level_num
       /\ level_num' # level_num => level_transition_timer = 1]_vars

C12_Witness ==
  /\ pass = "overlay" /\ level_transition_timer = 0 /\ level_num = 3
  /\ ~game_over /\ ~paused /\ ~win /\ enemies = 8

\* C13: with a non-zero X velocity and no Y displacement, after the X move
\* and collide(platforms, 'x') the player's rectangle overlaps no platform,
\* and velocity.x is 0 whenever the moved rectangle met a platform.
C13_NoOverlapAfterX ==
  (/\ probe.kind = "collide" /\ probe.phase = "x"
   /\ probe.vx0 # 0 /\ (probe.vel_y + 50) \div 100 = 0)
    => /\ \A i \in 1..Len(probe.platforms) :
            ~colliderect(probe.rect, Platform(probe.platforms[i]))
       /\ probe.hitx => probe.vel_x = 0

\* C19: a player moving right or left and down into a tile's corner, so that
\* it overlaps the tile only once both displacements are applied, is pushed
\* back on X with velocity.x = 0 and is not put on the tile with on_ground set.
C19_CornerIsXHit ==
  (/\ probe.kind = "collide" /\ probe.phase = "y"
   /\ probe.vx0 # 0 /\ probe.dy > 0
   /\ ~probe.hitx /\ probe.hity
   /\ \A i \in 1..Len(probe.platforms) :
        LET q == Platform(probe.platforms[i])
        IN /\ ~colliderect(probe.rect0, q)
           /\ ~colliderect([probe.rect0 EXCEPT !.y = @ + probe.dy], q))
    => /\ probe.vel_x = 0
       /\ probe.rect.x # probe.rect0.x + probe.vx0
       /\ ~probe.on_ground

\* C14: in a simulated frame the passes run player, then every enemy, then
\* the projectiles of both owners, then the collisions: no projectile moves
\* before the enemies have been updated, and a projectile spawned by the
\* player is moved and resolved in the same frame.
C14_UpdateOrder ==
  pass = "simulated" =>
    LET at(name) == CHOOSE i \in 1..Len(frame_log.order) : frame_log.order[i] = name
    IN /\ at("player") < at("enemies")
       /\ at("enemies") < at("bullets")
       /\ at("enemies") < at("enemy_bullets")
       /\ at("bullets") < at("resolve")
       /\ at("enemy_bullets") < at("resolve")

\* C15: never more than 6 player projectiles are live, and a simulated frame
\* spawns one exactly when fire is held and fewer than 6 are live when the
\* player is updated, none otherwise.
C15_BulletCap ==
  /\ [](bullets <= 6)
  /\ [][pass' = "simulated" =>
          /\ frame_log'.spawned = IF frame_log'.fire /\ bullets < 6 THEN 1 ELSE 0
          /\ bullets' <= bullets + frame_log'.spawned]_vars

C15_Witness ==
  /\ pass = "simulated" /\ bullets = 6
  /\ frame_log.fire /\ frame_log.spawned = 0

\* C16: for every stage n in 1..MAX_LEVEL load_level(n) builds template
\* (n-1) mod 3 with the tier min(n, 5), so stage 6 uses tier 5, and returns
\* max(number of 'E' cells of the template, the tier's enemy_count) enemies.
C16_LoadLevel ==
  level_num <= 6 =>
    LET n == level_num
        t == ((n - 1) % 3) + 1
        tier == IF n <= 5 THEN n ELSE 5
        spawns == <<(<<312, 336>>), (<<312, 240>>), (<<408, 240>>)>>
        flags == <<(<<1896, 308>>), (<<2136, 212>>), (<<1896, 212>>)>>
        tiles == <<31, 41, 35>>
        cells == <<0, 3, 2>>
        count == <<4, 6, 8, 10, 12>>
        speed == <<100, 120, 150, 190, 230>>
    IN /\ level_data.n = n
       /\ level_data.spawn = spawns[t]
       /\ level_data.platforms = tiles[t]
       /\ level_data.checkpoints =
            <<[activated |-> FALSE, respawn_point |-> flags[t]]>>
       /\ level_data.shooters = (cells[t] > 0)
       /\ level_data.settings =
            [enemy_count |-> count[tier], enemy_speed |-> speed[tier]]
       /\ level_data.enemies =
            IF cells[t] >= count[tier] THEN cells[t] ELSE count[tier]

C16_Witness ==
  /\ level_num = 6 /\ pass = "overlay" /\ level_transition_timer = 0
  /\ level_data.n = 6 /\ level_data.settings.enemy_count = 12
  /\ enemies = 12 /\ ~win

\* C17: a chaser with aggro set moves toward the player's horizontal position
\* in every update, whatever the ground probe and the wall probe report: a
\* failed probe neither flips its direction nor stops the move.
C17_ChaserIgnoresProbes ==
  [][(probe.kind = "enemy" /\ probe.e.type = "chaser" /\ probe.e.aggro)
       => LET step == IF probe.e.speed < 150 THEN 1 ELSE 2
          IN IF probe'.px < probe.e.x
             THEN probe'.e.x = probe.e.x - step /\ probe'.e.dir = -1
             ELSE probe'.e.x = probe.e.x + step /\ probe'.e.dir = 1]_vars

\* C18: every update of a patrol enemy either finds no ground ahead or a
\* platform in the moved rectangle, and then negates dir and leaves x, or
\* else moves x by round(speed) * dir and leaves dir: it never moves into a
\* rectangle that overlaps a platform.
C18_PatrolTurnsOrMoves ==
  [][(probe.kind = "enemy" /\ probe.e.type = "patrol")
       => LET step == IF probe.e.speed < 150 THEN 1 ELSE 2
          IN IF ~probe'.ground_hit \/ probe'.wall_hit
             THEN probe'.e.dir = -probe.e.dir /\ probe'.e.x = probe.e.x
             ELSE /\ probe'.e.x = probe.e.x + step * probe.e.dir
                  /\ probe'.e.dir = probe.e.dir]_vars

C18_Witness ==
  /\ probe.kind = "enemy" /\ probe.e.type = "patrol" /\ probe.updated
  /\ probe.ground_hit /\ probe.wall_hit
  /\ probe.e.speed = 150 /\ probe.e.dir = -1 /\ probe.e.x = 2

\* C20: a dash fires in a simulated frame only with the dash key held and
\* dash_cooldown <= 0 at that frame; it sets velocity.x to 18 * facing for
\* the frame (a wall stops it) and arms the cooldown, which goes down by one
\* in every simulated frame whatever the keys and never below 0, so two
\* dashes are at least 45 simulated frames apart.  (since_dash counts the
\* simulated frames after the last dash.)
C20_DashCooldown ==
  /\ [](player.dash_cooldown >= 0)
  /\ [][pass' = "simulated" =>
          IF frame_log'.dashed
          THEN /\ frame_log'.dash /\ player.dash_cooldown <= 0
               /\ player'.vel_x \in {18 * player'.facing, 0}
               /\ player'.dash_cooldown > 0
               /\ frame_log.since_dash + 1 >= 45
          ELSE player'.dash_cooldown =
                 IF player.dash_cooldown > 0 THEN player.dash_cooldown - 1
                 ELSE 0]_vars

C20_Witness ==
  /\ pass = "simulated" /\ frame_log.dashed /\ frame_log.since_dash = 0
  /\ player.vel_x = -18 /\ player.facing = -1 /\ player.dash_cooldown = 44

\* C21: at most one of paused, game_over, win and a running transition
\* countdown holds in any state: the controller is in exactly one of Playing,
\* Paused, Transitioning, GameOver and Win.
C21_OneControllerState ==
  Cardinality({m \in {"paused", "game_over", "win", "transition"} :
                 \/ (m = "paused" /\ paused)
                 \/ (m = "game_over" /\ game_over)
                 \/ (m = "win" /\ win)
                 \/ (m = "transition" /\ level_transition_timer > 0)}) <= 1

\* C22: between two grounded states at most one full-power impulse and at
\* most one double-jump impulse are applied, however often jump is pressed:
\* after a full-power jump no second one fires before the player has landed.
\* (fulls and doubles count the impulses since the last update that ended on
\* the ground.)
C22_OneJumpEach ==
  frame_log.fulls <= 1 /\ frame_log.doubles <= 1

\* C23: whenever a frame can simulate the active respawn point is the
\* current level's spawn point; a fall-death respawn puts the player on the
\* level spawn and never on a checkpoint's respawn point.
C23_RespawnAtLevelSpawn ==
  LET spawns == <<(<<312, 336>>), (<<312, 240>>), (<<408, 240>>)>>
      flags == {<<1896, 308>>, <<2136, 212>>, <<1896, 212>>}
      spawn == spawns[((level_num - 1) % 3) + 1]
  IN /\ Playing => (respawn_point = spawn /\ respawn_point = player_spawn)
     /\ (pass = "simulated" /\ frame_log.died)
          => /\ frame_log.respawned_at = spawn
             /\ frame_log.respawned_at \notin flags
             /\ player.rect.at = spawn

C23_Witness ==
  /\ pass = "simulated" /\ frame_log.died /\ level_num = 2
  /\ frame_log.respawned_at = <<312, 240>>
  /\ player.rect = [at |-> <<312, 240>>, moved |-> FALSE]
  /\ player.lives = 2 /\ ~game_over /\ level_transition_timer = 0

\* C24: in an update of a chaser whose aggro flag is not set the horizontal
\* position changes only if both probes pass and the player's centre is less
\* than 400 pixels away horizontally, and then aggro is set and the chaser
\* steps towards the player; otherwise x stays, aggro stays unset and only a
\* failed probe flips the direction.  A set aggro flag stays set.
C24_ChaserWakesInRange ==
  [][probe.e.type = "chaser"
       => LET e == probe.e
              f == probe'.e
              d == probe'.px - e.x
              step == IF e.speed < 150 THEN 1 ELSE 2
              pass_probes == probe'.ground_hit /\ ~probe'.wall_hit
          IN /\ e.aggro => f.aggro
             /\ ~e.aggro =>
                  IF pass_probes /\ -400 < d /\ d < 400
                  THEN /\ f.aggro
                       /\ f.x = IF d < 0 THEN e.x - step ELSE e.x + step
                       /\ f.dir = IF d < 0 THEN -1 ELSE 1
                  ELSE /\ ~f.aggro
                       /\ f.x = e.x
                       /\ f.dir = IF pass_probes THEN e.dir ELSE -e.dir]_vars

C24_Witness ==
  /\ probe.kind = "enemy" /\ probe.updated /\ probe.e.type = "chaser"
  /\ probe.e.aggro /\ probe.ground_hit /\ ~probe.wall_hit
  /\ probe.px = probe.e.x + 397 /\ probe.e.speed = 160 /\ probe.e.dir = 1

====
